---------------------------- MODULE Spec2Model ----------------------------
(* Blogicum: the request handlers of blog/views.py over the persisted     *)
(* store (Category, Post, Comment) for a fixed set of registered users.    *)
(* One action per view; every action records the request it serves and    *)
(* the response it produces.                                              *)
EXTENDS Integers, Sequences, FiniteSets, TLC

(* ------------------------------ bounds -------------------------------- *)
MaxPosts    == 2    \* post identifiers ever handed out by the AutoField
MaxComments == 2    \* comment identifiers ever handed out
MaxTime     == 1    \* the clock runs over 0..MaxTime

(* ----------------------------- universe ------------------------------- *)
Users      == {"alice", "bob"}
Anonymous  == "anonymous"
Viewers    == Users \cup {Anonymous}
Usernames  == Users \cup {"nobody"}
Categories == {"travel", "hidden"}
Methods    == {"GET", "POST"}
PostIds    == 1..MaxPosts
CommentIds == 1..MaxComments
Times      == 0..MaxTime

VARIABLES
    categories,     \* Category table: slug -> is_published
    posts,          \* Post table: id -> row
    comments,       \* Comment table: id -> row
    nextPostId,     \* Post AutoField sequence
    nextCommentId,  \* Comment AutoField sequence
    now,            \* timezone.now()
    request,        \* the request being served (view = "" when none is)
    response        \* the response produced for it

store == <<categories, posts, comments, nextPostId, nextCommentId>>
vars  == <<categories, posts, comments, nextPostId, nextCommentId,
           now, request, response>>

(* ------------------------------ forms --------------------------------- *)
\* PostForm: title, text, pub_date, location, category, image.
PostData(t, d, c) ==
    [title    |-> t,
     text     |-> IF t = "" THEN "" ELSE "body1",
     pub_date |-> d,
     location |-> IF t = "" THEN "" ELSE "loc1",
     category |-> c,
     image    |-> ""]

\* A GET, or a POST with the required fields left blank.
EmptyPostForm == PostData("", 0, "travel")

PostFormInputs == {EmptyPostForm} \cup {PostData("t1", d, c) : d \in Times, c \in Categories}

\* ModelForm validation: a required field left blank fails is_valid().
PostFormValid(form) == form.title # "" /\ form.text # ""

\* CommentForm: text.
CommentFormInputs == {"", "hi", "yo"}

CommentFormValid(text) == text # ""

(* ----------------------------- responses ------------------------------ *)
NoUrl == [name |-> "", post_id |-> 0, username |-> "", fragment |-> "", fragment_id |-> 0]

Url(name, pid, uname, frag, fid) ==
    [name |-> name, post_id |-> pid, username |-> uname, fragment |-> frag, fragment_id |-> fid]

Req(view, method, user, pid, cid, uname, valid) ==
    [view |-> view, method |-> method, user |-> user, post_id |-> pid,
     comment_id |-> cid, username |-> uname, form_valid |-> valid]

Resp(status, url, list, obj) ==
    [status |-> status, url |-> url, object_list |-> list, object |-> obj]

Rendered(list, obj) == Resp(200, NoUrl, list, obj)
Redirect(url)       == Resp(302, url, <<>>, 0)
NotFound            == Resp(404, NoUrl, <<>>, 0)
Forbidden           == Resp(403, NoUrl, <<>>, 0)

NoRequest  == Req("", "", Anonymous, 0, 0, "", FALSE)
NoResponse == Resp(0, NoUrl, <<>>, 0)

\* A request is handled from arrival to response as one unit of work.
Idle == request = NoRequest

(* LoginRequiredMixin / AccessMixin.handle_no_permission for a viewer     *)
(* that is not authenticated: redirect to the login page.                 *)
is_authenticated(user) == user \in Users

RedirectToLogin == Redirect(Url("login", 0, "", "", 0))


(* ----------------------------- querysets ------------------------------ *)
\* Count("comments"): the comments whose post is pid.
comment_count(pid) == Cardinality({c \in DOMAIN comments : comments[c].post = pid})

\* order_by("-pub_date"): every order of ids with pub_date descending; the
\* order among equal pub_dates is whatever the database returns.
OrderByPubDateDesc(ids) ==
    {s \in [1..Cardinality(ids) -> ids] :
        /\ \A i, j \in 1..Cardinality(ids) : i # j => s[i] # s[j]
        /\ \A i \in 1..(Cardinality(ids) - 1) :
              posts[s[i]].pub_date >= posts[s[i + 1]].pub_date}

\* PostListFilter without the pub_date__lte condition.
PostListFilter_NoPubDate(pid) ==
    /\ posts[pid].is_published = TRUE
    /\ categories[posts[pid].category] = TRUE

\* PostListView.get_queryset: the Q filter.
PostListFilter(pid) ==
    /\ posts[pid].is_published = TRUE
    /\ categories[posts[pid].category] = TRUE
    /\ posts[pid].pub_date <= now

PostListQueryset == {pid \in DOMAIN posts : PostListFilter(pid)}

\* ProfileIsOwner taking any logged-in viewer for the owner.
ProfileIsOwner_AnyLoggedIn(user, profile) == is_authenticated(user)

\* ProfileView.get_queryset: base_query, then the owner branch or the Q filter.
ProfileIsOwner(user, profile) == user = profile

ProfileFilter(pid) ==
    /\ posts[pid].is_published = TRUE
    /\ categories[posts[pid].category] = TRUE
    /\ posts[pid].pub_date <= now

ProfileQueryset(user, profile) ==
    LET base_query == {pid \in DOMAIN posts : posts[pid].author = profile}
    IN  IF ProfileIsOwner(user, profile)
        THEN base_query
        ELSE {pid \in base_query : ProfileFilter(pid)}

\* PostDetailHidden without the category check.
PostDetailHidden_NoCategory(user, pid) ==
    /\ \/ ~posts[pid].is_published
       \/ posts[pid].pub_date > now
    /\ posts[pid].author # user

\* PostDetailView.get_object: the condition under which Http404 is raised.
PostDetailHidden(user, pid) ==
    /\ \/ ~posts[pid].is_published
       \/ ~categories[posts[pid].category]
       \/ posts[pid].pub_date > now
    /\ posts[pid].author # user

(* ------------------------------ read views ---------------------------- *)
\* GET /
PostListView(user) ==
    /\ Idle
    /\ request' = Req("index", "GET", user, 0, 0, "", FALSE)
    /\ \E list \in OrderByPubDateDesc(PostListQueryset) :
          response' = Rendered(list, 0)
    /\ UNCHANGED <<store, now>>

\* GET /profile/{username}/
ProfileView(user, username) ==
    /\ Idle
    /\ request' = Req("profile", "GET", user, 0, 0, username, FALSE)
    /\ IF username \notin Users
       THEN response' = NotFound
       ELSE \E list \in OrderByPubDateDesc(ProfileQueryset(user, username)) :
               response' = Rendered(list, 0)
    /\ UNCHANGED <<store, now>>

\* GET /posts/{post_id}/
PostDetailView(user, post_id) ==
    /\ Idle
    /\ request' = Req("post_detail", "GET", user, post_id, 0, "", FALSE)
    /\ response' = IF post_id \notin DOMAIN posts THEN NotFound
                   ELSE IF PostDetailHidden(user, post_id) THEN NotFound
                   ELSE Rendered(<<>>, post_id)
    /\ UNCHANGED <<store, now>>

(* -------------------------- persistence helpers ----------------------- *)
Remove(table, id) == [i \in (DOMAIN table) \ {id} |-> table[i]]

\* CascadeComments with on_delete doing nothing.
CascadeComments_None(post_id) == {}

\* ForeignKey(on_delete=CASCADE, to='blog.post'): the comments that go with a post.
CascadeComments(post_id) == {c \in DOMAIN comments : comments[c].post = post_id}

DeletePost(post_id) ==
    /\ posts' = Remove(posts, post_id)
    /\ comments' = [c \in (DOMAIN comments) \ CascadeComments(post_id) |-> comments[c]]

(* ------------------------------ post views ---------------------------- *)
\* GET/POST /posts/create/
\* is_published is no field of PostForm: the row gets the value the model
\* (or the admin site) gives it, which the view does not decide.
PostCreateView(user, method, form, published) ==
    /\ Idle
    /\ nextPostId <= MaxPosts
    /\ request' = Req("post_create", method, user, 0, 0, "", PostFormValid(form))
    /\ IF ~is_authenticated(user)
       THEN /\ response' = RedirectToLogin
            /\ UNCHANGED store
       ELSE IF method = "GET" \/ ~PostFormValid(form)
       THEN /\ response' = Rendered(<<>>, 0)
            /\ UNCHANGED store
       ELSE /\ posts' = posts @@ (nextPostId :>
                  [author |-> user, is_published |-> published,
                   title |-> form.title, text |-> form.text,
                   pub_date |-> form.pub_date, location |-> form.location,
                   category |-> form.category, image |-> form.image])
            /\ nextPostId' = nextPostId + 1
            /\ response' = Redirect(Url("blog:profile", 0, user, "", 0))
            /\ UNCHANGED <<categories, comments, nextCommentId>>
    /\ UNCHANGED now

\* PostEditIsAuthor letting every logged-in viewer through.
PostEditIsAuthor_LoggedIn(user, post_id) == is_authenticated(user)

\* PostEditView.get_object: None unless the viewer is the author.
PostEditIsAuthor(user, post_id) == posts[post_id].author = user

\* GET/POST /posts/{post_id}/edit/
\* dispatch() resolves the object before LoginRequiredMixin.dispatch runs.
PostEditView(user, method, post_id, form) ==
    /\ Idle
    /\ request' = Req("post_edit", method, user, post_id, 0, "", PostFormValid(form))
    /\ IF post_id \notin DOMAIN posts
       THEN /\ response' = NotFound
            /\ UNCHANGED store
       ELSE IF ~PostEditIsAuthor(user, post_id)
       THEN /\ response' = Redirect(Url("blog:post_detail", post_id, "", "", 0))
            /\ UNCHANGED store
       ELSE IF ~is_authenticated(user)
       THEN /\ response' = RedirectToLogin
            /\ UNCHANGED store
       ELSE IF method = "GET" \/ ~PostFormValid(form)
       THEN /\ response' = Rendered(<<>>, post_id)
            /\ UNCHANGED store
       ELSE /\ posts' = [posts EXCEPT ![post_id] =
                  [@ EXCEPT !.title = form.title, !.text = form.text,
                            !.pub_date = form.pub_date, !.location = form.location,
                            !.category = form.category, !.image = form.image]]
            /\ response' = Redirect(Url("blog:post_detail", post_id, "", "", 0))
            /\ UNCHANGED <<categories, comments, nextPostId, nextCommentId>>
    /\ UNCHANGED now

\* PostDeleteView.test_func
PostDeleteTestFunc(user, post_id) == user = posts[post_id].author

\* GET/POST /posts/{post_id}/delete/
PostDeleteView(user, method, post_id) ==
    /\ Idle
    /\ request' = Req("post_delete", method, user, post_id, 0, "", FALSE)
    /\ IF ~is_authenticated(user)
       THEN /\ response' = RedirectToLogin
            /\ UNCHANGED store
       ELSE IF post_id \notin DOMAIN posts
       THEN /\ response' = NotFound
            /\ UNCHANGED store
       ELSE IF ~PostDeleteTestFunc(user, post_id)
       THEN /\ response' = Forbidden
            /\ UNCHANGED store
       ELSE IF method = "GET"
       THEN /\ response' = Rendered(<<>>, post_id)
            /\ UNCHANGED store
       ELSE /\ DeletePost(post_id)
            /\ response' = Redirect(Url("blog:index", 0, "", "", 0))
            /\ UNCHANGED <<categories, nextPostId, nextCommentId>>
    /\ UNCHANGED now

(* ----------------------------- comment views -------------------------- *)
\* CommentCreateView.get_success_url
CommentCreateSuccessUrl(post_id, comment_id) ==
    Url("blog:post_detail", post_id, "", "comment", comment_id)

\* CommentCreateInstance crediting the comment to the post's author.
CommentCreateInstance_PostAuthor(user, post_id, text) ==
    [post |-> post_id, author |-> posts[post_id].author, text |-> text]

\* CommentCreateView.form_valid: the row that is saved.
CommentCreateInstance(user, post_id, text) ==
    [post |-> post_id, author |-> user, text |-> text]

\* GET/POST /posts/{post_id}/comment/
CommentCreateView(user, method, post_id, text) ==
    /\ Idle
    /\ nextCommentId <= MaxComments
    /\ request' = Req("comment_create", method, user, post_id, 0, "", CommentFormValid(text))
    /\ IF ~is_authenticated(user)
       THEN /\ response' = RedirectToLogin
            /\ UNCHANGED store
       ELSE IF method = "GET" \/ ~CommentFormValid(text)
       THEN /\ response' = Rendered(<<>>, 0)
            /\ UNCHANGED store
       ELSE IF post_id \notin DOMAIN posts
       THEN /\ response' = NotFound
            /\ UNCHANGED store
       ELSE /\ comments' = comments @@
                  (nextCommentId :> CommentCreateInstance(user, post_id, text))
            /\ nextCommentId' = nextCommentId + 1
            /\ response' = Redirect(CommentCreateSuccessUrl(post_id, nextCommentId))
            /\ UNCHANGED <<categories, posts, nextPostId>>
    /\ UNCHANGED now

\* CommentEditView.test_func
CommentEditTestFunc(user, comment_id) == user = comments[comment_id].author

\* CommentEditSuccessUrl without the anchor.
CommentEditSuccessUrl_NoAnchor(comment_id) ==
    Url("blog:post_detail", comments[comment_id].post, "", "", 0)

\* CommentEditView.get_success_url
CommentEditSuccessUrl(comment_id) ==
    Url("blog:post_detail", comments[comment_id].post, "", "comment_", comment_id)

\* GET/POST /posts/{post_id}/edit_comment/{comment_id}/
\* The view never reads kwargs["post_id"]: the comment is looked up by
\* comment_id alone, whatever post the URL names.
CommentEditView(user, method, comment_id, text) ==
    /\ Idle
    /\ request' = Req("comment_edit", method, user, 0, comment_id, "",
                      CommentFormValid(text))
    /\ IF ~is_authenticated(user)
       THEN /\ response' = RedirectToLogin
            /\ UNCHANGED store
       ELSE IF comment_id \notin DOMAIN comments
       THEN /\ response' = NotFound
            /\ UNCHANGED store
       ELSE IF ~CommentEditTestFunc(user, comment_id)
       THEN /\ response' = Forbidden
            /\ UNCHANGED store
       ELSE IF method = "GET" \/ ~CommentFormValid(text)
       THEN /\ response' = Rendered(<<>>, 0)
            /\ UNCHANGED store
       ELSE /\ comments' = [comments EXCEPT ![comment_id].text = text]
            /\ response' = Redirect(CommentEditSuccessUrl(comment_id))
            /\ UNCHANGED <<categories, posts, nextPostId, nextCommentId>>
    /\ UNCHANGED now

\* CommentDeleteTestFunc letting every logged-in viewer through.
CommentDeleteTestFunc_LoggedIn(user, comment_id) == is_authenticated(user)

\* CommentDeleteView.test_func
CommentDeleteTestFunc(user, comment_id) == user = comments[comment_id].author

\* CommentDeleteView.get_success_url
CommentDeleteSuccessUrl(post_id) == Url("blog:post_detail", post_id, "", "", 0)

\* GET/POST /posts/{post_id}/delete_comment/{comment_id}/
CommentDeleteView(user, method, post_id, comment_id) ==
    /\ Idle
    /\ request' = Req("comment_delete", method, user, post_id, comment_id, "", FALSE)
    /\ IF ~is_authenticated(user)
       THEN /\ response' = RedirectToLogin
            /\ UNCHANGED store
       ELSE IF comment_id \notin DOMAIN comments
       THEN /\ response' = NotFound
            /\ UNCHANGED store
       ELSE IF ~CommentDeleteTestFunc(user, comment_id)
       THEN /\ response' = Forbidden
            /\ UNCHANGED store
       ELSE IF method = "GET"
       THEN /\ response' = Rendered(<<>>, 0)
            /\ UNCHANGED store
       ELSE /\ comments' = Remove(comments, comment_id)
            /\ response' = Redirect(CommentDeleteSuccessUrl(post_id))
            /\ UNCHANGED <<categories, posts, nextPostId, nextCommentId>>
    /\ UNCHANGED now

(* -------------------------------- clock ------------------------------- *)
\* The response is delivered and the request is over.
Respond ==
    /\ ~Idle
    /\ request' = NoRequest
    /\ response' = NoResponse
    /\ UNCHANGED <<store, now>>

\* timezone.now() advances between requests.
Tick ==
    /\ Idle
    /\ now < MaxTime
    /\ now' = now + 1
    /\ UNCHANGED <<store, request, response>>

(* ---------------------------- specification --------------------------- *)
Init ==
    /\ categories = [c \in Categories |-> c # "hidden"]
    /\ posts = [i \in {} |-> 0]
    /\ comments = [i \in {} |-> 0]
    /\ nextPostId = 1
    /\ nextCommentId = 1
    /\ now = 0
    /\ request = NoRequest
    /\ response = NoResponse

\* A GET carries no form data.
PostFormsOf(method, forms) == IF method = "GET" THEN {EmptyPostForm} ELSE forms

CommentFormsOf(method) == IF method = "GET" THEN {""} ELSE CommentFormInputs

\* The post and visibility surface: listings, detail, post create/edit/delete,
\* with the clock running.
Next ==
    \/ \E u \in Viewers : PostListView(u)
    \/ \E u \in Viewers, n \in Usernames : ProfileView(u, n)
    \/ \E u \in Viewers, p \in PostIds : PostDetailView(u, p)
    \/ \E u \in Viewers, m \in Methods, b \in BOOLEAN :
          \E f \in PostFormsOf(m, PostFormInputs) : PostCreateView(u, m, f, b)
    \/ \E u \in Viewers, m \in Methods, p \in PostIds :
          \E f \in PostFormsOf(m, PostFormInputs) : PostEditView(u, m, p, f)
    \/ \E u \in Viewers, m \in Methods, p \in PostIds : PostDeleteView(u, m, p)
    \/ Respond
    \/ Tick

Spec == Init /\ [][Next]_vars

\* The comment surface: comment create/edit/delete over publicly visible posts
\* that are created, edited and deleted.
CommentSpecPostForms == {EmptyPostForm, PostData("t1", 0, "travel")}

NextComments ==
    \/ \E u \in Viewers, m \in Methods :
          \E f \in PostFormsOf(m, CommentSpecPostForms) : PostCreateView(u, m, f, TRUE)
    \/ \E u \in Viewers, m \in Methods, p \in PostIds :
          \E f \in PostFormsOf(m, CommentSpecPostForms) : PostEditView(u, m, p, f)
    \/ \E u \in Viewers, m \in Methods, p \in PostIds : PostDeleteView(u, m, p)
    \/ \E u \in Viewers, m \in Methods, p \in PostIds :
          \E t \in CommentFormsOf(m) : CommentCreateView(u, m, p, t)
    \/ \E u \in Viewers, m \in Methods, c \in CommentIds :
          \E t \in CommentFormsOf(m) : CommentEditView(u, m, c, t)
    \/ \E u \in Viewers, m \in Methods, p \in PostIds, c \in CommentIds :
          CommentDeleteView(u, m, p, c)
    \/ Respond

SpecComments == Init /\ [][NextComments]_vars

\* Commenting on posts of every visibility: post create, post detail and
\* comment create, with the clock running.
NextReach ==
    \/ \E u \in Viewers, p \in PostIds : PostDetailView(u, p)
    \/ \E u \in Viewers, m \in Methods, b \in BOOLEAN :
          \E f \in PostFormsOf(m, PostFormInputs) : PostCreateView(u, m, f, b)
    \/ \E u \in Viewers, m \in Methods, p \in PostIds :
          \E t \in CommentFormsOf(m) : CommentCreateView(u, m, p, t)
    \/ Respond
    \/ Tick

SpecReach == Init /\ [][NextReach]_vars

(* ============================ properties ============================== *)
\* The public visibility predicate of a stored post.
IsVisibleToPublic(pid) ==
    /\ posts[pid].is_published
    /\ categories[posts[pid].category]
    /\ posts[pid].pub_date <= now

ResultSet == {response.object_list[i] : i \in DOMAIN response.object_list}

\* The step that serves a request to `view`.
Serves(view) == Idle /\ request'.view = view

\* C1: a stored post is in the result set of the home listing, whoever asks,
\* exactly when it is published, its category is published and its pub_date
\* is not in the future.
C1_HomeListingIffPublic ==
    request.view = "index" =>
        /\ ResultSet \subseteq DOMAIN posts
        /\ \A pid \in DOMAIN posts : pid \in ResultSet <=> IsVisibleToPublic(pid)

\* The home listing served to the author of a hidden post: it shows a public
\* post and leaves the author's own hidden post out.
C1_Witness ==
    /\ request.view = "index"
    /\ ResultSet # {}
    /\ \E pid \in DOMAIN posts :
          posts[pid].author = request.user /\ ~IsVisibleToPublic(pid) /\ pid \notin ResultSet

\* C2: a stored post is in the profile listing of user U requested by viewer V
\* exactly when U wrote it and V is U or the post is publicly visible.
C2_ProfileListing ==
    (request.view = "profile" /\ request.username \in Users) =>
        /\ ResultSet \subseteq DOMAIN posts
        /\ \A pid \in DOMAIN posts :
              pid \in ResultSet <=>
                  /\ posts[pid].author = request.username
                  /\ (request.user = request.username \/ IsVisibleToPublic(pid))

\* The owner's own profile listing showing a post no one else may see, next to
\* a stored post of another author that it leaves out.
C2_Witness ==
    /\ request.view = "profile"
    /\ request.user = request.username
    /\ \E pid \in ResultSet : ~IsVisibleToPublic(pid)
    /\ \E pid \in DOMAIN posts : posts[pid].author # request.username

\* C3: the detail request for a stored post is answered 404 exactly when the
\* post is not publicly visible and the viewer is not its author; otherwise it
\* is answered 200 with that post.
C3_DetailNotFoundIffHidden ==
    (request.view = "post_detail" /\ request.post_id \in DOMAIN posts) =>
        /\ response.status = 404 <=>
              /\ ~IsVisibleToPublic(request.post_id)
              /\ posts[request.post_id].author # request.user
        /\ response.status # 404 =>
              response.status = 200 /\ response.object = request.post_id

\* The author is shown their own hidden post.
C3_Witness ==
    /\ request.view = "post_detail"
    /\ request.post_id \in DOMAIN posts
    /\ ~IsVisibleToPublic(request.post_id)
    /\ posts[request.post_id].author = request.user
    /\ response.status = 200

(* --------------------------------------------------------------------- *)
LoginRequiredViews ==
    {"post_create", "post_edit", "post_delete",
     "comment_create", "comment_edit", "comment_delete"}

\* The entity the request is aimed at exists (post create has none).
TargetExists(req) ==
    CASE req.view \in {"post_edit", "post_delete", "comment_create"} ->
            req.post_id \in DOMAIN posts
      [] req.view \in {"comment_edit", "comment_delete"} ->
            req.comment_id \in DOMAIN comments
      [] OTHER -> TRUE

\* C4: an anonymous request to a login-required route on an existing target is
\* answered with a redirect to the login page, and the store is unchanged.
C4_AnonymousRedirectedToLogin ==
    [][(/\ Idle
        /\ request'.view \in LoginRequiredViews
        /\ request'.user = Anonymous
        /\ TargetExists(request'))
       => (response' = RedirectToLogin /\ store' = store)]_vars

\* C5: a post edit request by an authenticated viewer who is not the author
\* leaves the post (title, text, pub_date, location, category, image, author)
\* as it was and is answered with a redirect to the post's detail page.
C5_NonAuthorEditRedirects ==
    [][(/\ Serves("post_edit")
        /\ request'.user \in Users
        /\ request'.post_id \in DOMAIN posts
        /\ posts[request'.post_id].author # request'.user)
       => (/\ request'.post_id \in DOMAIN posts'
           /\ \A field \in {"title", "text", "pub_date", "location",
                            "category", "image", "author"} :
                 posts'[request'.post_id][field] = posts[request'.post_id][field]
           /\ response' = Redirect(Url("blog:post_detail", request'.post_id, "", "", 0)))]_vars

\* A valid edit form POSTed by a logged-in non-author, answered by the redirect.
C5_Witness ==
    /\ request.view = "post_edit"
    /\ request.method = "POST"
    /\ request.form_valid
    /\ request.user \in Users
    /\ request.post_id \in DOMAIN posts
    /\ posts[request.post_id].author # request.user
    /\ response.status = 302

\* The author of the entity a delete or comment-edit request is aimed at.
TargetAuthor(req) ==
    IF req.view = "post_delete" THEN posts[req.post_id].author
    ELSE comments[req.comment_id].author

\* C6: comment delete, comment edit and post delete by an authenticated viewer
\* who is not the author are answered 403, and the posts and comments
\* (their number and their text) stay as they were.
C6_NonAuthorForbidden ==
    [][(/\ Idle
        /\ request'.view \in {"comment_delete", "comment_edit", "post_delete"}
        /\ request'.user \in Users
        /\ TargetExists(request')
        /\ TargetAuthor(request') # request'.user)
       => (/\ response'.status = 403
           /\ posts' = posts
           /\ comments' = comments
           /\ \A pid \in DOMAIN posts : comment_count(pid)' = comment_count(pid))]_vars

\* A comment delete POSTed by a logged-in non-author, answered 403, the
\* comment still stored.
C6_Witness ==
    /\ request.view = "comment_delete"
    /\ request.method = "POST"
    /\ request.user \in Users
    /\ request.comment_id \in DOMAIN comments
    /\ comments[request.comment_id].author # request.user
    /\ response.status = 403

\* C7: a comment create POST with a valid form by an authenticated user adds
\* exactly one comment, with that user as author and the named post as post,
\* changes no other comment and no post, and is answered with a redirect to
\* the post's detail URL whose anchor carries the new comment's identifier;
\* when the post does not exist it is answered 404 and adds nothing.
C7_CommentCreate ==
    [][(/\ Serves("comment_create")
        /\ request'.method = "POST"
        /\ request'.form_valid
        /\ request'.user \in Users)
       => IF request'.post_id \in DOMAIN posts
          THEN /\ \E c \in (DOMAIN comments') \ (DOMAIN comments) :
                    /\ DOMAIN comments' = (DOMAIN comments) \cup {c}
                    /\ comments'[c].author = request'.user
                    /\ comments'[c].post = request'.post_id
                    /\ response'.status = 302
                    /\ response'.url.name = "blog:post_detail"
                    /\ response'.url.post_id = request'.post_id
                    /\ response'.url.fragment # ""
                    /\ response'.url.fragment_id = c
               /\ \A d \in DOMAIN comments : comments'[d] = comments[d]
               /\ posts' = posts
          ELSE /\ response'.status = 404
               /\ comments' = comments
               /\ posts' = posts]_vars

\* A second comment has just been created next to an earlier one.
C7_Witness ==
    /\ request.view = "comment_create"
    /\ response.status = 302
    /\ request.user \in Users
    /\ Cardinality(DOMAIN comments) = 2
    /\ response.url.fragment_id \in DOMAIN comments

\* C8: a comment is created by user U on post P only if the detail request
\* for P by U would succeed: P is publicly visible or U is its author.
C8_CommentOnlyOnReachablePost ==
    (/\ request.view = "comment_create"
     /\ request.user \in Users
     /\ response.status = 302)
    => (/\ request.post_id \in DOMAIN posts
        /\ (IsVisibleToPublic(request.post_id)
               \/ posts[request.post_id].author = request.user))

\* A comment edit or delete that went through for its author.
CommentChangeSucceeded ==
    /\ request.view \in {"comment_edit", "comment_delete"}
    /\ request.user \in Users
    /\ response.status = 302

\* C9 as claimed: a successful comment edit and a successful comment delete
\* are both answered with a redirect to a post detail URL carrying an anchor.
C9_EditAndDeleteRedirectWithAnchor ==
    CommentChangeSucceeded =>
        /\ response.url.name = "blog:post_detail"
        /\ response.url.fragment # ""

\* C9 as amended: a successful comment edit is answered with a redirect to the
\* detail URL of the comment's post with the anchor comment_<id>; a successful
\* comment delete with a redirect to the detail URL of the post named in the
\* request path, without an anchor.
C9_EditAnchorDeleteNone ==
    CommentChangeSucceeded =>
        IF request.view = "comment_edit"
        THEN /\ request.comment_id \in DOMAIN comments
             /\ response.url = Url("blog:post_detail", comments[request.comment_id].post,
                                   "", "comment_", request.comment_id)
        ELSE /\ request.comment_id \notin DOMAIN comments
             /\ response.url = Url("blog:post_detail", request.post_id, "", "", 0)

\* The author has deleted a comment while another comment is stored.
C9_Witness ==
    /\ CommentChangeSucceeded
    /\ request.view = "comment_delete"
    /\ DOMAIN comments # {}

\* C10: every stored comment references a stored post and a user; a comment
\* gets both when it is created, from the request that creates it; no later
\* request changes either; deleting a post leaves no comment referencing it.
C10_CommentReferences ==
    [][/\ \A c \in DOMAIN comments' :
             comments'[c].post \in DOMAIN posts' /\ comments'[c].author \in Users
       /\ \A c \in (DOMAIN comments') \cap (DOMAIN comments) :
             /\ comments'[c].post = comments[c].post
             /\ comments'[c].author = comments[c].author
       /\ \A c \in (DOMAIN comments') \ (DOMAIN comments) :
             /\ request'.view = "comment_create"
             /\ comments'[c].post = request'.post_id
             /\ comments'[c].author = request'.user]_vars

\* A post has been deleted together with its comment, and the comment on the
\* other post is still stored.
C10_Witness ==
    /\ request.view = "post_delete"
    /\ response.status = 302
    /\ request.user \in Users
    /\ Cardinality(DOMAIN comments) >= 1
    /\ nextCommentId - 1 > Cardinality(DOMAIN comments)
    /\ \A c \in DOMAIN comments : comments[c].post \in DOMAIN posts

=============================================================================
